---- MODULE Spec2Model ----
(***************************************************************************)
(* Model of arduino-pitch_detector/wave.cpp: the RIFF/WAVE header parser   *)
(* Wave::readHeader, the sample reader Wave::readSamples and the byte      *)
(* primitive _readBytes they share.                                        *)
(*                                                                         *)
(* A File is a byte sequence with a read cursor.  Its content is kept as   *)
(* a record [head, fill, tail]: the bytes of head, then fill bytes of      *)
(* value FillByte, then the bytes of tail.  This only shortens the         *)
(* representation of long runs of padding; File_read serves the bytes one  *)
(* by one as Arduino's File::read() does.                                  *)
(***************************************************************************)
EXTENDS Integers, Sequences, FiniteSets, TLC

VARIABLES
    f,          \* content of the File the caller passes to both functions
    pos,        \* read cursor of the File: number of bytes consumed so far
    reads,      \* number of f.read() calls made so far (failed ones included)
    sampleCnt,  \* the caller's sampleCnt_t object that pSampleCnt points at
    samples,    \* slots of the destination buffer written by the last call
    rc,         \* return value of the last call
    call        \* the last call made and its arguments (observation only)

vars == <<f, pos, reads, sampleCnt, samples, rc, call>>

-----------------------------------------------------------------------------
(* Bounds of the model *)

\* longest sample payload put behind the data chunk header
MaxSamples == 3

\* longest byte sequence handed to _readBytes when it is exercised alone
MaxRawLen == 3

-----------------------------------------------------------------------------
(* Program constants *)

\* Config::SAMPLE_RATE
SAMPLE_RATE == 9615

\* SCHAR_MIN of <limits.h>, the offset Wave::readSamples passes
SCHAR_MIN == -128

\* number of values of uint16_t, the type of _readBytes' len
UINT16_RANGE == 65536

\* sizeof(chunk_t): hdr_t plus the 4-byte format tag
SIZEOF_CHUNK == 12

\* sizeof(hdr_t): 4-byte id plus uint32_t len
SIZEOF_HDR == 8

\* sizeof(fmtValue_t)
SIZEOF_FMTVALUE == 16

\* _ids[]
ID_RIFF == <<82, 73, 70, 70>>
ID_WAVE == <<87, 65, 86, 69>>
ID_FMT  == <<102, 109, 116, 32>>
ID_DATA == <<100, 97, 116, 97>>

-----------------------------------------------------------------------------
(* The byte source *)

FileLen(file) == Len(file.head) + file.fill + Len(file.tail)

\* byte at 0-based offset i < FileLen(file)
ByteAt(file, i) ==
    IF i < Len(file.head) THEN file.head[i + 1]
    ELSE IF i < Len(file.head) + file.fill THEN 0
    ELSE file.tail[i - Len(file.head) - file.fill + 1]

\* File::read(): the next byte, or -1 at end of data
File_read(file, p) == IF p < FileLen(file) THEN ByteAt(file, p) ELSE -1

-----------------------------------------------------------------------------
(* Integer conversions of the build *)

\* little-endian load of a uint16_t / uint32_t member of a packed struct
U16(b, i) == b[i] + 256 * b[i + 1]
U32(b, i) == b[i] + 256 * b[i + 1] + 65536 * b[i + 2] + 16777216 * b[i + 3]

\* conversion of an int to the char stored through buf
ToChar(v) == v % 256

\* conversion of an unsigned value to the uint16_t parameter len
ToUint16(v) == v % UINT16_RANGE

\* conversion of hdr.len (uint32_t) to sampleCnt_t: sampleCnt_t holds every
\* 32-bit count, so the value is kept
ToSampleCnt(v) == v

\* a stored char read back as a sample_t (signed 8-bit)
ToSample(c) == IF c >= 128 THEN c - 256 ELSE c

-----------------------------------------------------------------------------
(* _readBytes *)

\* mutant of readLoop: the byte is stored before the end-of-data test
RECURSIVE readLoopStoreFirst(_, _, _, _, _, _, _, _)
readLoopStoreFirst(file, p, len, offset, hasDest, ii, buf, n) ==
    IF ii >= len
    THEN [rc |-> 0, pos |-> p, reads |-> n, buf |-> buf]
    ELSE LET d    == File_read(file, p)
             buf2 == IF hasDest THEN Append(buf, ToChar(d + offset)) ELSE buf
         IN IF d < 0
            THEN [rc |-> 1, pos |-> p, reads |-> n + 1, buf |-> buf2]
            ELSE readLoopStoreFirst(file, p + 1, len, offset, hasDest, ii + 1,
                                    buf2, n + 1)

\* the for loop of _readBytes from index ii on
RECURSIVE readLoop(_, _, _, _, _, _, _, _)
readLoop(file, p, len, offset, hasDest, ii, buf, n) ==
    IF ii >= len
    THEN [rc |-> 0, pos |-> p, reads |-> n, buf |-> buf]
    ELSE LET d == File_read(file, p) IN
         IF d < 0
         THEN [rc |-> 1, pos |-> p, reads |-> n + 1, buf |-> buf]
         ELSE readLoop(file, p + 1, len, offset, hasDest, ii + 1,
                       IF hasDest THEN Append(buf, ToChar(d + offset)) ELSE buf,
                       n + 1)

\* _readBytes(f, len, offset, data): len arrives as a uint16_t; hasDest says
\* whether data is non-NULL.  Result: return code, cursor, read calls made,
\* slots written.
_readBytes(file, p, len, offset, hasDest) ==
    readLoop(file, p, ToUint16(len), offset, hasDest, 0, <<>>, 0)

-----------------------------------------------------------------------------
(* Wave::readHeader *)

HdrResult(code, p, n, cnt) == [rc |-> code, pos |-> p, reads |-> n, cnt |-> cnt]

\* mutant of readData: *pSampleCnt is assigned before the tag is compared
readDataEarlyStore(file, p, n, cnt) ==
    LET r == _readBytes(file, p, SIZEOF_HDR, 0, TRUE) IN
    IF r.rc # 0
    THEN HdrResult(5, r.pos, n + r.reads, cnt)
    ELSE IF SubSeq(r.buf, 1, 4) # ID_DATA
    THEN HdrResult(5, r.pos, n + r.reads, ToSampleCnt(U32(r.buf, 5)))
    ELSE HdrResult(0, r.pos, n + r.reads, ToSampleCnt(U32(r.buf, 5)))

\* mutant of readData: a failed read returns the fmt block's code 3
readDataWrongCode(file, p, n, cnt) ==
    LET r == _readBytes(file, p, SIZEOF_HDR, 0, TRUE) IN
    IF r.rc # 0
    THEN HdrResult(3, r.pos, n + r.reads, cnt)
    ELSE IF SubSeq(r.buf, 1, 4) # ID_DATA
    THEN HdrResult(5, r.pos, n + r.reads, cnt)
    ELSE HdrResult(0, r.pos, n + r.reads, ToSampleCnt(U32(r.buf, 5)))

\* sub chunk "data"
readData(file, p, n, cnt) ==
    LET r == _readBytes(file, p, SIZEOF_HDR, 0, TRUE) IN
    IF r.rc # 0 \/ SubSeq(r.buf, 1, 4) # ID_DATA
    THEN HdrResult(5, r.pos, n + r.reads, cnt)
    ELSE HdrResult(0, r.pos, n + r.reads, ToSampleCnt(U32(r.buf, 5)))

\* mutant of unsupported: the four tests joined by && instead of ||
unsupportedAll(v) ==
    /\ U16(v, 1) # 1
    /\ U16(v, 3) # 1
    /\ U16(v, 15) # 8
    /\ U32(v, 5) # SAMPLE_RATE

\* the profile test on fmtValue: PCM, mono, 8 bits/sample, sample rate
unsupported(v) ==
    \/ U16(v, 1) # 1
    \/ U16(v, 3) # 1
    \/ U16(v, 15) # 8
    \/ U32(v, 5) # SAMPLE_RATE

\* sub chunk "fmt "
readFmt(file, p, n, cnt) ==
    LET h == _readBytes(file, p, SIZEOF_HDR, 0, TRUE) IN
    IF h.rc # 0 \/ SubSeq(h.buf, 1, 4) # ID_FMT
    THEN HdrResult(2, h.pos, n + h.reads, cnt)
    ELSE
    LET len == U32(h.buf, 5) IN
    IF len < SIZEOF_FMTVALUE
    THEN HdrResult(3, h.pos, n + h.reads, cnt)
    ELSE
    LET v == _readBytes(file, h.pos, SIZEOF_FMTVALUE, 0, TRUE) IN
    IF v.rc # 0
    THEN HdrResult(3, v.pos, n + h.reads + v.reads, cnt)
    ELSE
    LET s  == _readBytes(file, v.pos, len - SIZEOF_FMTVALUE, 0, FALSE)
        n2 == n + h.reads + v.reads + s.reads
    IN
    IF s.rc # 0
    THEN HdrResult(3, s.pos, n2, cnt)
    ELSE IF unsupported(v.buf)
    THEN HdrResult(4, s.pos, n2, cnt)
    ELSE readData(file, s.pos, n2, cnt)

\* Wave::readHeader(f, pSampleCnt): cnt is *pSampleCnt before the call
readHeader(file, p, cnt) ==
    LET c == _readBytes(file, p, SIZEOF_CHUNK, 0, TRUE) IN
    IF \/ c.rc # 0
       \/ SubSeq(c.buf, 1, 4) # ID_RIFF
       \/ SubSeq(c.buf, 9, 12) # ID_WAVE
    THEN HdrResult(1, c.pos, c.reads, cnt)
    ELSE readFmt(file, c.pos, c.reads, cnt)

-----------------------------------------------------------------------------
(* Wave::readSamples *)

\* Wave::readSamples(f, nrOfSamples, samples)
readSamples(file, p, nrOfSamples) ==
    LET r == _readBytes(file, p, nrOfSamples, SCHAR_MIN, TRUE) IN
    [rc |-> IF r.rc # 0 THEN 1 ELSE 0, pos |-> r.pos, reads |-> r.reads,
     buf |-> r.buf]

-----------------------------------------------------------------------------
(* Files the caller may hand in *)

LE16(v) == <<v % 256, (v \div 256) % 256>>
LE32(v) == <<v % 256, (v \div 256) % 256, (v \div 65536) % 256,
             (v \div 16777216) % 256>>

Zeros(n) == [i \in 1..n |-> 0]

\* sample bytes behind the data header: 0, 128, 255, 127, 0, ...
SampleBytes == [i \in 1..MaxSamples |-> <<0, 128, 255, 127>>[((i - 1) % 4) + 1]]

\* the container a parameter record describes, byte for byte
Container(p) ==
    LET desc == LE16(p.af) \o LE16(p.nc) \o LE32(p.sr) \o LE32(p.br)
                \o LE16(p.ba) \o LE16(p.bits)
        pre  == p.riff \o LE32(p.riffLen) \o p.wave \o p.fmt \o LE32(p.L)
        dat  == p.data \o LE32(p.N) \o SampleBytes
    IN IF p.L < 16
       THEN [head |-> pre \o SubSeq(desc, 1, p.L), fill |-> 0, tail |-> dat]
       ELSE IF p.L - 16 <= 8
       THEN [head |-> pre \o desc \o Zeros(p.L - 16), fill |-> 0, tail |-> dat]
       ELSE [head |-> pre \o desc \o p.ext, fill |-> p.L - 24, tail |-> dat]

\* the first c bytes of a file
Truncate(file, c) ==
    IF c <= Len(file.head)
    THEN [head |-> SubSeq(file.head, 1, c), fill |-> 0, tail |-> <<>>]
    ELSE IF c <= Len(file.head) + file.fill
    THEN [head |-> file.head, fill |-> c - Len(file.head), tail |-> <<>>]
    ELSE [head |-> file.head, fill |-> file.fill,
          tail |-> SubSeq(file.tail, 1, c - Len(file.head) - file.fill)]

\* the lengths a file is cut to: every length, but one only inside the filler
Cuts(file) ==
    (0..Len(file.head))
    \cup (IF file.fill > 0 THEN {Len(file.head) + 1} ELSE {})
    \cup {Len(file.head) + file.fill + k : k \in 0..Len(file.tail)}

RiffIds == {ID_RIFF, <<82, 73, 70, 88>>, <<114, 105, 102, 102>>}
WaveIds == {ID_WAVE, <<87, 65, 86, 101>>}
FmtIds  == {ID_FMT, <<102, 109, 116, 0>>, <<70, 77, 84, 32>>}
DataIds == {ID_DATA, <<100, 97, 116, 65>>, <<76, 73, 83, 84>>}

\* fmt chunk lengths: too short, exact, with extension, beyond 16 bits
FmtLens == {15, 16, 18, 65552, 65554}

\* the first 8 extension bytes of a long fmt chunk: zeros, or bytes that
\* read as a data chunk header
ExtHeads == {Zeros(8), ID_DATA \o LE32(2)}

DataLens == {0, 3, 65539}

Nominal ==
    [riff |-> ID_RIFF, riffLen |-> 1000, wave |-> ID_WAVE, fmt |-> ID_FMT,
     L |-> 16, af |-> 1, nc |-> 1, sr |-> SAMPLE_RATE, br |-> SAMPLE_RATE,
     ba |-> 1, bits |-> 8, ext |-> Zeros(8), data |-> ID_DATA, N |-> 3]

\* long fmt chunks come with both extension heads, the others with one
LenExt == {<<l, e>> \in FmtLens \X ExtHeads : l - 16 > 8 \/ e = Zeros(8)}

\* containers of the profile, with the unchecked fields varied
ValidParams ==
    {[Nominal EXCEPT !.L = le[1], !.ext = le[2], !.N = n,
                     !.riffLen = m[1], !.br = m[2], !.ba = m[3]] :
        le \in {x \in LenExt : x[1] >= 16}, n \in DataLens,
        m \in {<<1000, SAMPLE_RATE, 1>>, <<0, 0, 0>>}}

\* every combination of right and wrong tags
TagParams ==
    {[Nominal EXCEPT !.riff = r, !.wave = w, !.fmt = t, !.data = d,
                     !.L = le[1], !.ext = le[2]] :
        r \in RiffIds, w \in WaveIds, t \in FmtIds, d \in DataIds,
        le \in LenExt}

\* every combination of right and wrong format fields
FormatParams ==
    {[Nominal EXCEPT !.af = a, !.nc = c, !.bits = b, !.sr = s, !.data = d,
                     !.L = le[1], !.ext = le[2]] :
        a \in {1, 257}, c \in {1, 2}, b \in {8, 264},
        s \in {SAMPLE_RATE, SAMPLE_RATE + 65536}, d \in DataIds,
        le \in {x \in LenExt : x[1] >= 16}}

\* whole files, and every cut of those with a short fmt chunk or a valid one
Files ==
    {Container(p) : p \in ValidParams \cup TagParams \cup FormatParams}
    \cup UNION {{Truncate(Container(p), c) : c \in Cuts(Container(p))} :
                p \in ValidParams
                      \cup {q \in TagParams \cup FormatParams : q.L <= 18}}

\* the counts a caller passes to readSamples, besides the parsed one
Counts == {0, 1, MaxSamples, MaxSamples + 1, UINT16_RANGE,
           UINT16_RANGE + MaxSamples}

-----------------------------------------------------------------------------
(* The caller: readHeader once, readSamples once *)

NoCall == [op |-> "none", count |-> 0, offset |-> 0, hasDest |-> FALSE,
           pos0 |-> 0, cnt0 |-> 0]

Init ==
    /\ f \in Files
    /\ pos = 0
    /\ reads = 0
    /\ sampleCnt = 7
    /\ samples = <<>>
    /\ rc = 0
    /\ call = NoCall

ReadHeader ==
    /\ call.op = "none"
    /\ LET r == readHeader(f, pos, sampleCnt) IN
       /\ pos' = r.pos
       /\ reads' = reads + r.reads
       /\ sampleCnt' = r.cnt
       /\ rc' = r.rc
       /\ call' = [NoCall EXCEPT !.op = "readHeader", !.pos0 = pos,
                                 !.cnt0 = sampleCnt]
    /\ UNCHANGED <<f, samples>>

ReadSamples ==
    /\ call.op \in {"none", "readHeader"}
    /\ \E n \in Counts \cup {sampleCnt} :
         LET r == readSamples(f, pos, n) IN
         /\ pos' = r.pos
         /\ reads' = reads + r.reads
         /\ samples' = r.buf
         /\ rc' = r.rc
         /\ call' = [NoCall EXCEPT !.op = "readSamples", !.count = n,
                                   !.offset = SCHAR_MIN, !.hasDest = TRUE,
                                   !.pos0 = pos, !.cnt0 = sampleCnt]
    /\ UNCHANGED <<f, sampleCnt>>

Next == ReadHeader \/ ReadSamples

Spec == Init /\ [][Next]_vars

-----------------------------------------------------------------------------
(* _readBytes exercised alone, on any short byte sequence *)

RawBytes == {0, 127, 128, 255}

RECURSIVE RawSeqs(_)
RawSeqs(n) ==
    IF n = 0 THEN {<<>>}
    ELSE RawSeqs(n - 1)
         \cup {Append(q, b) : q \in {x \in RawSeqs(n - 1) : Len(x) = n - 1},
                              b \in RawBytes}

RawLens == (0..(MaxRawLen + 1)) \cup {UINT16_RANGE - 1}

RawOffsets == {0, SCHAR_MIN, 1, 129}

InitRB ==
    /\ f \in {[head |-> q, fill |-> 0, tail |-> <<>>] : q \in RawSeqs(MaxRawLen)}
    /\ pos \in 0..FileLen(f)
    /\ reads = 0
    /\ sampleCnt = 7
    /\ samples = <<>>
    /\ rc = 0
    /\ call = NoCall

ReadBytes ==
    /\ call.op = "none"
    /\ \E len \in RawLens, offset \in RawOffsets, hasDest \in BOOLEAN :
         LET r == _readBytes(f, pos, len, offset, hasDest) IN
         /\ pos' = r.pos
         /\ reads' = reads + r.reads
         /\ samples' = r.buf
         /\ rc' = r.rc
         /\ call' = [NoCall EXCEPT !.op = "_readBytes", !.count = len,
                                   !.offset = offset, !.hasDest = hasDest,
                                   !.pos0 = pos, !.cnt0 = sampleCnt]
    /\ UNCHANGED <<f, sampleCnt>>

NextRB == ReadBytes

SpecRB == InitRB /\ [][NextRB]_vars

-----------------------------------------------------------------------------
(* The container as section 6 of the specification lays it out, read off   *)
(* the file's bytes independently of the parser                            *)

\* the 4 bytes at offset off, or <<>> when the file ends before them
TagAt(file, off) ==
    IF FileLen(file) >= off + 4
    THEN [i \in 1..4 |-> ByteAt(file, off + i - 1)]
    ELSE <<>>

Field16(file, off) == ByteAt(file, off) + 256 * ByteAt(file, off + 1)

Field32(file, off) == Field16(file, off) + 65536 * Field16(file, off + 2)

\* the prologue is present with both tags right
PrologueOk(file) ==
    /\ FileLen(file) >= 12
    /\ TagAt(file, 0) = ID_RIFF
    /\ TagAt(file, 8) = ID_WAVE

\* ... and the fmt chunk header is present with the right tag
FmtHdrOk(file) ==
    /\ PrologueOk(file)
    /\ FileLen(file) >= 20
    /\ TagAt(file, 12) = ID_FMT

\* declared length L of the fmt chunk
FmtL(file) == Field32(file, 16)

\* ... and the fmt chunk has L >= 16 and all its L bytes are in the file
FmtPresent(file) ==
    /\ FmtHdrOk(file)
    /\ FmtL(file) >= 16
    /\ FileLen(file) >= 20 + FmtL(file)

\* one of the four profile fields is off
OffProfile(file) ==
    \/ Field16(file, 20) # 1
    \/ Field16(file, 22) # 1
    \/ Field16(file, 34) # 8
    \/ Field32(file, 24) # SAMPLE_RATE

\* the file is a container of the profile up to and including the data
\* chunk header
MatchesProfile(file) ==
    /\ FmtPresent(file)
    /\ ~OffProfile(file)
    /\ FileLen(file) >= 28 + FmtL(file)
    /\ TagAt(file, 20 + FmtL(file)) = ID_DATA

\* a read call of the last operation hit the end of the data
Exhausted == reads > pos

HeaderDone == call.op = "readHeader"
SamplesDone == call.op = "readSamples"

-----------------------------------------------------------------------------
(* Claims *)

\* C1: for every container of the profile (fmt length L >= 16 with its L
\* bytes present) readHeader returns 0 and stores the data chunk's length
\* field N in *pSampleCnt.
C1_ReturnsDataLength ==
    HeaderDone /\ MatchesProfile(f)
        => rc = 0 /\ sampleCnt = Field32(f, 24 + FmtL(f))

\* C2: after a successful readSamples with count n the output holds
\* out[i] = in[i] - 128 for every i < n, in source order, each within
\* [-128, 127].
C2_BiasedSamples ==
    SamplesDone /\ rc = 0
        => /\ Len(samples) = call.count
           /\ FileLen(f) >= call.pos0 + call.count
           /\ \A i \in 1..call.count :
                /\ ToSample(samples[i]) = ByteAt(f, call.pos0 + i - 1) - 128
                /\ ToSample(samples[i]) \in -128..127

\* C3: a count that exceeds the bytes still in the source makes readSamples
\* return non-zero.
C3_TruncatedFails ==
    SamplesDone /\ call.count > FileLen(f) - call.pos0 => rc # 0

\* C4: on success readHeader has read exactly 28 + L bytes, for every fmt
\* length L >= 16, so the next byte is the first sample byte.
C4_ConsumesFmtChunk ==
    HeaderDone /\ MatchesProfile(f) /\ rc = 0 => pos = 28 + FmtL(f)

\* C5: with enough bytes in the source, a wrong RIFF or WAVE tag gives 1, a
\* wrong second chunk tag gives 2 and a wrong third chunk tag gives 5; the
\* tags are compared on all 4 bytes.
C5_TagFaultCodes ==
    HeaderDone =>
        /\ FileLen(f) >= 12 /\ ~PrologueOk(f) => rc = 1
        /\ FileLen(f) >= 20 /\ PrologueOk(f) /\ ~FmtHdrOk(f) => rc = 2
        /\ (/\ FmtPresent(f)
            /\ ~OffProfile(f)
            /\ FileLen(f) >= 28 + FmtL(f)
            /\ TagAt(f, 20 + FmtL(f)) # ID_DATA) => rc = 5

\* C6: when the RIFF/WAVE and fmt tags are valid and the fmt chunk (L >= 16)
\* is fully present, readHeader returns 4 as soon as one of audioFormat,
\* numChannels, bitsPerSample, sampleRate is off the profile, whatever
\* follows the fmt chunk.
C6_UnsupportedFormat ==
    HeaderDone /\ FmtPresent(f) /\ OffProfile(f) => rc = 4

\* C6 witness: a fully present fmt chunk with exactly one field off (the
\* upper half of sampleRate) and a valid data chunk behind it
C6_Witness ==
    /\ HeaderDone
    /\ FmtPresent(f)
    /\ Field16(f, 20) = 1 /\ Field16(f, 22) = 1 /\ Field16(f, 34) = 8
    /\ Field32(f, 24) = SAMPLE_RATE + 65536
    /\ TagAt(f, 20 + FmtL(f)) = ID_DATA
    /\ rc = 4

\* C7: whenever readHeader returns non-zero, *pSampleCnt is what it was
\* before the call.
C7_CountUntouchedOnError ==
    HeaderDone /\ rc # 0 => sampleCnt = call.cnt0

\* C7 witness: the data chunk header was read in full, length field
\* included, and rejected for its tag
C7_Witness ==
    /\ HeaderDone
    /\ rc = 5
    /\ ~Exhausted
    /\ Field32(f, pos - 4) # call.cnt0

\* where readHeader reads the data chunk header: behind the prologue, the
\* fmt header, the descriptor and the (L - 16) mod 2^16 bytes it skips
DataHdrAt(file) == 36 + ((FmtL(file) - 16) % UINT16_RANGE)

\* C8 as claimed: when the source runs out inside the prologue, the fmt
\* chunk header or the data chunk header, readHeader returns a code other
\* than the tag-mismatch codes 1, 2 and 5.
C8_ExhaustionDistinct ==
    HeaderDone /\ Exhausted =>
        /\ pos < 12 => rc \notin {0, 1, 2, 5}
        /\ pos >= 12 /\ pos < 20 => rc \notin {0, 1, 2, 5}
        /\ pos >= 20 /\ FmtL(f) >= 16 /\ pos >= DataHdrAt(f)
               => rc \notin {0, 1, 2, 5}

\* C8 amended: when the source runs out, readHeader returns the code of the
\* gate whose read failed, the same code as that gate's tag mismatch: 1
\* inside the prologue, 2 inside the fmt chunk header, 5 inside the data
\* chunk header.
C8_ExhaustionSharesCode ==
    HeaderDone /\ Exhausted =>
        /\ pos < 12 => rc = 1
        /\ pos >= 12 /\ pos < 20 => rc = 2
        /\ pos >= 20 /\ FmtL(f) >= 16 /\ pos >= DataHdrAt(f) => rc = 5

\* C8 witness: the source ran out inside the data chunk header
C8_Witness ==
    /\ HeaderDone
    /\ Exhausted
    /\ FmtHdrOk(f)
    /\ FmtL(f) >= 16
    /\ pos > DataHdrAt(f)
    /\ rc = 5

\* C9: readHeader stops reading at the gate that fails: with enough bytes,
\* 12 bytes are consumed for a wrong RIFF or WAVE tag, 20 for a wrong fmt
\* tag or a fmt length L < 16, 20 + L for an unsupported format, 28 + L for
\* a wrong data tag; and a failing read is the last read made.
C9_FailFastOffsets ==
    HeaderDone =>
        /\ FileLen(f) >= 12 /\ ~PrologueOk(f) => pos = 12
        /\ FileLen(f) >= 20 /\ PrologueOk(f) /\ ~FmtHdrOk(f) => pos = 20
        /\ FmtHdrOk(f) /\ FmtL(f) < 16 => pos = 20
        /\ FmtPresent(f) /\ OffProfile(f) => pos = 20 + FmtL(f)
        /\ (/\ FmtPresent(f)
            /\ ~OffProfile(f)
            /\ FileLen(f) >= 28 + FmtL(f)
            /\ TagAt(f, 20 + FmtL(f)) # ID_DATA) => pos = 28 + FmtL(f)
        /\ Exhausted => reads = pos + 1 /\ pos = FileLen(f)

\* C10: _readBytes returns 0 exactly after len successful reads; when the
\* source ends after k < len bytes it returns non-zero after k + 1 read
\* calls; with a destination, slot i holds (byte_i + offset) mod 256 for
\* each byte read and no further slot is written; without one nothing is
\* written and the source still advances by the bytes read.
C10_ReadBytesContract ==
    call.op = "_readBytes" =>
        LET avail == FileLen(f) - call.pos0
            k     == IF call.count <= avail THEN call.count ELSE avail
        IN /\ rc = 0 <=> call.count <= avail
           /\ rc # 0 => rc = 1
           /\ pos = call.pos0 + k
           /\ reads = IF rc = 0 THEN call.count ELSE k + 1
           /\ call.hasDest =>
                /\ Len(samples) = k
                /\ \A i \in 1..k :
                     samples[i] = (ByteAt(f, call.pos0 + i - 1) + call.offset) % 256
           /\ ~call.hasDest => samples = <<>>

\* C10 witness: a destination was given, bytes were stored with a wrapping
\* offset, and the source ended before len bytes
C10_Witness ==
    /\ call.op = "_readBytes"
    /\ call.hasDest
    /\ call.offset = 129
    /\ rc # 0
    /\ Len(samples) = 2
    /\ samples[2] = 0

====
